---- MODULE Spec2Model ----
(***************************************************************************)
(* Handle registry and callback bridge of datachannel-wasm (capi.cpp,      *)
(* peerconnection.cpp, datachannel.cpp, websocket.cpp) as a state machine. *)
(*                                                                         *)
(* A resource object is identified by the handle it was registered under:  *)
(* obj[h] is the object that the stores hold (or held) for key h.  An      *)
(* object whose last shared_ptr is gone is destroyed (alive = FALSE); its   *)
(* record stays, because the host keeps the raw pointer it was given and   *)
(* may still deliver an event to it (a dangling reference).                *)
(***************************************************************************)
EXTENDS Integers, FiniteSets, Sequences, TLC

\* ---- bounds of the model
MaxId == 2
MaxCallbacks == 1
MaxLen == 1
MaxText == 2

\* ---- status vocabulary (rtc.h)
RTC_ERR_SUCCESS == 0
RTC_ERR_INVALID == -1
RTC_ERR_FAILURE == -2
RTC_ERR_NOT_AVAIL == -3
RTC_ERR_TOO_SMALL == -4

Handles == 1..MaxId
\* client context pointers; 0 is nullptr
Ptrs == {0, 1}
\* client callback functions; 0 is a null function pointer
CbFuncs == {1, 2}

ChannelKinds == {"Open", "Closed", "Error", "Message", "BufferedAmountLow"}
PcKinds == {"LocalDescription", "LocalCandidate", "StateChange", "IceStateChange",
            "GatheringStateChange", "SignalingStateChange", "DataChannel"}
Kinds == ChannelKinds \cup PcKinds

\* a stored std::function: the capi lambda [id, cb], or empty (cb = 0)
NoClosure == [id |-> 0, cb |-> 0]
\* releases counts the calls of the host's release primitive for the object's
\* transport (js_rtcDeleteDataChannel, emscripten_websocket_close)
NoObj == [kind |-> "none", mId |-> FALSE, mConnected |-> FALSE, alive |-> FALSE,
          releases |-> 0, cbs |-> [k \in Kinds |-> NoClosure]]
\* the host's side of a transport: the bytes queued for sending and the low
\* threshold the host works with (0 until it is given one); asked is the
\* amount of the last successful rtcSetBufferedAmountLowThreshold, -1 if none
NoTransport == [queued |-> 0, threshold |-> 0, asked |-> -1]
\* the client threads that call into the library at the same time
Threads == {1, 2}
\* a thread in rtcDelete(id): at the position at, with the shared_ptr the
\* lookup returned (found), the mId its close() read (saw), and the status
\* the call returned once it is done
NoThread == [at |-> "idle", id |-> 0, found |-> FALSE, saw |-> FALSE, ret |-> 0]
\* no client callback invocation
None == [h |-> 0, kind |-> "none", cb |-> 0, ptr |-> 0, dc |-> 0, size |-> 0]

\* what the host passes to a message callback: data pointer (null or not),
\* the size argument, and the length of the C string at data
HostMsgs == {[data |-> FALSE, size |-> 0, slen |-> 0]}
              \cup {[data |-> TRUE, size |-> s, slen |-> 0] : s \in 0..MaxLen}
              \cup {[data |-> TRUE, size |-> -1, slen |-> l] : l \in 0..MaxLen}

VARIABLES
    lastId,             \* capi.cpp: int lastId
    peerConnectionMap,  \* key set of peerConnectionMap; the value for key h is obj[h]
    dataChannelMap,     \* key set of dataChannelMap
    webSocketMap,       \* key set of webSocketMap
    userPointerMap,     \* function: handle -> pointer, on the keys present
    mutex,              \* TRUE while the registry mutex is held
    obj,                \* the resource objects, by the handle they were registered under
    inCb,               \* the handle whose client callback is running, 0 if none is
    call,               \* the client callback invocation the last step made, or None
    selfDeleted,        \* handles deleted from inside a callback dispatched for them
    copy,               \* the last application of copyAndReturn: arguments and result
    held,               \* the DataChannel the running rtcSetDataChannelCallback lambda
                        \* holds a shared_ptr to, 0 if none
    host,               \* the host's send queue and low threshold of each transport
    thr                 \* the rtcDelete call each client thread is in, step by step

vars == <<lastId, peerConnectionMap, dataChannelMap, webSocketMap, userPointerMap,
          mutex, obj, inCb, call, selfDeleted, copy, held, host,
          thr>>

stores == <<peerConnectionMap, dataChannelMap, webSocketMap>>

\* ---- std::unordered_map operations
MapSet(m, k, v) == [x \in (DOMAIN m) \cup {k} |-> IF x = k THEN v ELSE m[x]]
MapEmplace(m, k, v) == IF k \in DOMAIN m THEN m ELSE MapSet(m, k, v)
MapErase(m, k) == [x \in (DOMAIN m) \ {k} |-> m[x]]
EmptyMap == [x \in {} |-> 0]

\* ---- copyAndReturn

\* the values copied out: byte sequences of up to MaxText bytes, none of them 0
Texts == UNION {[1..n -> {1, 2}] : n \in 0..MaxText}
\* the capacities a client passes, negative and too large ones included
Capacities == -1..(MaxText + 2)
\* the client's buffer: absent (a null pointer), or cells holding what the
\* client left there
NullBuffer == [present |-> FALSE, cells |-> <<>>]
ClientBuffer(size) == [present |-> TRUE, cells |-> [i \in 1..size |-> 3]]
NoCopy == [fn |-> "none", value |-> <<>>, size |-> 0, before |-> NullBuffer,
           after |-> NullBuffer, ret |-> 0]

\* copyAndReturn(string) that copies what fits before it reports RTC_ERR_TOO_SMALL
copyAndReturnStringPartial(s, buffer, size) ==
    IF ~buffer.present THEN [ret |-> Len(s) + 1, buffer |-> buffer]
    ELSE IF size < Len(s) + 1
    THEN [ret |-> RTC_ERR_TOO_SMALL,
          buffer |-> [buffer EXCEPT !.cells = [i \in DOMAIN buffer.cells |-> s[i]]]]
    ELSE [ret |-> Len(s) + 1,
          buffer |-> [buffer EXCEPT !.cells = [i \in DOMAIN buffer.cells |->
                         IF i <= Len(s) THEN s[i]
                         ELSE IF i = Len(s) + 1 THEN 0 ELSE buffer.cells[i]]]]
\* int copyAndReturn(string s, char *buffer, int size)
copyAndReturnString(s, buffer, size) ==
    IF ~buffer.present THEN [ret |-> Len(s) + 1, buffer |-> buffer]
    ELSE IF size < Len(s) + 1 THEN [ret |-> RTC_ERR_TOO_SMALL, buffer |-> buffer]
    ELSE [ret |-> Len(s) + 1,
          buffer |-> [buffer EXCEPT !.cells = [i \in DOMAIN buffer.cells |->
                         IF i <= Len(s) THEN s[i]
                         ELSE IF i = Len(s) + 1 THEN 0 ELSE buffer.cells[i]]]]
\* int copyAndReturn(binary b, char *buffer, int size)
copyAndReturnBinary(b, buffer, size) ==
    IF ~buffer.present THEN [ret |-> Len(b), buffer |-> buffer]
    ELSE IF size < Len(b) THEN [ret |-> RTC_ERR_TOO_SMALL, buffer |-> buffer]
    ELSE [ret |-> Len(b),
          buffer |-> [buffer EXCEPT !.cells = [i \in DOMAIN buffer.cells |->
                         IF i <= Len(b) THEN b[i] ELSE buffer.cells[i]]]]

\* ---- registry (capi.cpp, anonymous namespace)

\* getUserPointer without the scope that releases the lock_guard
getUserPointerHoldsLock(upm, id) ==
    IF id \in DOMAIN upm THEN [has |-> TRUE, val |-> upm[id], locked |-> TRUE]
    ELSE [has |-> FALSE, val |-> 0, locked |-> TRUE]
\* optional<void *> getUserPointer(int id); locked tells whether the mutex is
\* still held when the function has returned (the lock_guard's scope is the body)
getUserPointer(upm, id) ==
    IF id \in DOMAIN upm THEN [has |-> TRUE, val |-> upm[id], locked |-> FALSE]
    ELSE [has |-> FALSE, val |-> 0, locked |-> FALSE]

\* setUserPointer that writes only to an entry that exists
setUserPointerExisting(upm, i, ptr) == IF i \in DOMAIN upm THEN MapSet(upm, i, ptr) ELSE upm
\* void setUserPointer(int i, void *ptr): userPointerMap[i] = ptr
setUserPointer(upm, i, ptr) == MapSet(upm, i, ptr)

\* getDataChannel that looks the key up among all channels
getDataChannelAnyChannel(id) == id \in dataChannelMap \/ id \in webSocketMap
\* the three getters throw std::invalid_argument when the key is absent
getPeerConnection(id) == id \in peerConnectionMap
getDataChannel(id) == id \in dataChannelMap
getWebSocket(id) == id \in webSocketMap
\* getChannel that accepts every handle value handed out so far
getChannelIssued(id) == id >= 1 /\ id <= lastId
getChannel(id) == id \in dataChannelMap \/ id \in webSocketMap

\* a counter that stops advancing after the first handle
NextIdStuck(l) == IF l = 0 THEN 1 ELSE l
\* ++lastId
NextId(l) == l + 1

\* emplaceDataChannel that forgets dataChannelMap.emplace
emplaceDataChannelUnregistered(dcm, upm, id) == [keys |-> dcm, up |-> MapEmplace(upm, id, 0)]
\* emplaceX: the key set and the user pointer table after the insertion
emplacePeerConnection(pcm, upm, id) == [keys |-> pcm \cup {id}, up |-> MapEmplace(upm, id, 0)]
emplaceDataChannel(dcm, upm, id) == [keys |-> dcm \cup {id}, up |-> MapEmplace(upm, id, 0)]
emplaceWebSocket(wsm, upm, id) == [keys |-> wsm \cup {id}, up |-> MapEmplace(upm, id, 0)]

\* erasePeerConnection that forgets userPointerMap.erase(pc)
erasePeerConnectionKeepsPointer(pcm, upm, pc) ==
    IF pc \in pcm THEN [ok |-> TRUE, keys |-> pcm \ {pc}, up |-> upm]
    ELSE [ok |-> FALSE, keys |-> pcm, up |-> upm]
\* eraseX: ok = FALSE is the std::invalid_argument thrown for an absent key
erasePeerConnection(pcm, upm, pc) ==
    IF pc \in pcm THEN [ok |-> TRUE, keys |-> pcm \ {pc}, up |-> MapErase(upm, pc)]
    ELSE [ok |-> FALSE, keys |-> pcm, up |-> upm]
eraseDataChannel(dcm, upm, dc) ==
    IF dc \in dcm THEN [ok |-> TRUE, keys |-> dcm \ {dc}, up |-> MapErase(upm, dc)]
    ELSE [ok |-> FALSE, keys |-> dcm, up |-> upm]
eraseWebSocket(wsm, upm, ws) ==
    IF ws \in wsm THEN [ok |-> TRUE, keys |-> wsm \ {ws}, up |-> MapErase(upm, ws)]
    ELSE [ok |-> FALSE, keys |-> wsm, up |-> upm]
\* eraseChannel that forgets to erase the key from its store
eraseChannelKeepsKey(dcm, wsm, upm, id) ==
    IF id \in dcm \/ id \in wsm
    THEN [ok |-> TRUE, dc |-> dcm, ws |-> wsm, up |-> MapErase(upm, id)]
    ELSE [ok |-> FALSE, dc |-> dcm, ws |-> wsm, up |-> upm]
eraseChannel(dcm, wsm, upm, id) ==
    IF id \in dcm THEN [ok |-> TRUE, dc |-> dcm \ {id}, ws |-> wsm, up |-> MapErase(upm, id)]
    ELSE IF id \in wsm THEN [ok |-> TRUE, dc |-> dcm, ws |-> wsm \ {id}, up |-> MapErase(upm, id)]
    ELSE [ok |-> FALSE, dc |-> dcm, ws |-> wsm, up |-> upm]

\* wrap with a single catch clause, for std::exception, that returns RTC_ERR_INVALID
wrapInvalidOnly(r) == IF r.exc = "none" THEN r.val ELSE RTC_ERR_INVALID
\* int wrap(F func): exc is the exception func threw, val its result otherwise
wrap(r) ==
    IF r.exc = "none" THEN r.val
    ELSE IF r.exc = "invalid_argument" THEN RTC_ERR_INVALID
    ELSE RTC_ERR_FAILURE
Ok(v) == [exc |-> "none", val |-> v]
Throw(e) == [exc |-> e, val |-> 0]

\* ---- resource objects

\* close() that releases the transport but keeps mId
ChannelCloseKeepsId(o) ==
    [o EXCEPT !.mConnected = FALSE, !.releases = IF o.mId THEN @ + 1 ELSE @]
\* DataChannel::close / WebSocket::close
ChannelClose(o) ==
    [o EXCEPT !.mConnected = FALSE, !.mId = FALSE,
              !.releases = IF o.mId THEN @ + 1 ELSE @]
\* isClosed that reports every channel that is not open
isClosedWhenNotOpen(o) == ~o.mConnected
\* DataChannel::isOpen / isClosed, WebSocket::isOpen / isClosed
isOpen(o) == o.mConnected
isClosed(o) == ~o.mId
\* ~DataChannel / ~WebSocket call close(); ~PeerConnection releases the host object
Destroy(o) ==
    IF o.kind = "pc" THEN [o EXCEPT !.alive = FALSE]
    ELSE [ChannelClose(o) EXCEPT !.alive = FALSE]
\* the registry drops its shared_ptr to o: o is destroyed unless the running
\* DataChannel lambda still holds one (kept = TRUE)
Release(o, kept) == IF kept THEN o ELSE Destroy(o)
NewObj(kind) == [NoObj EXCEPT !.kind = kind, !.mId = TRUE, !.alive = TRUE]

Registered(pcm, dcm, wsm) == pcm \cup dcm \cup wsm
Live == Registered(peerConnectionMap, dataChannelMap, webSocketMap)

NumClosures == Cardinality({hk \in Handles \X Kinds : obj[hk[1]].cbs[hk[2]].cb # 0})

Init ==
    /\ lastId = 0
    /\ peerConnectionMap = {}
    /\ dataChannelMap = {}
    /\ webSocketMap = {}
    /\ userPointerMap = EmptyMap
    /\ mutex = FALSE
    /\ obj = [h \in Handles |-> NoObj]
    /\ inCb = 0
    /\ call = None
    /\ selfDeleted = {}
    /\ copy = NoCopy
    /\ held = 0
    /\ host = [h \in Handles |-> NoTransport]
    /\ thr = [t \in Threads |-> NoThread]

\* ---- ABI.  The status an entry point returns is a function of the state it
\* is called in (XRet); the action X is the call's effect on the state.

InvalidUnless(found) == wrap(IF found THEN Ok(RTC_ERR_SUCCESS) ELSE Throw("invalid_argument"))
SelfDelete(id) == IF inCb = id THEN {id} ELSE {}

\* ---- ABI: user pointer

rtcSetUserPointer(i, ptr) ==
    /\ ~mutex
    /\ userPointerMap' = setUserPointer(userPointerMap, i, ptr)
    /\ call' = None
    /\ UNCHANGED <<lastId, stores, mutex, obj, inCb, selfDeleted>>
    /\ UNCHANGED <<copy, held, host, thr>>

\* getUserPointer(i).value_or(nullptr)
rtcGetUserPointerRet(i) ==
    LET up == getUserPointer(userPointerMap, i) IN IF up.has THEN up.val ELSE 0
rtcGetUserPointer(i) ==
    /\ ~mutex
    /\ mutex' = getUserPointer(userPointerMap, i).locked
    /\ call' = None
    /\ UNCHANGED <<lastId, stores, userPointerMap, obj, inCb, selfDeleted>>
    /\ UNCHANGED <<copy, held, host, thr>>

\* ---- ABI: PeerConnection

\* hostId: js_rtcCreatePeerConnection returned a non-zero id
rtcCreatePeerConnectionRet(hostId) ==
    wrap(IF hostId THEN Ok(NextId(lastId)) ELSE Throw("runtime_error"))
rtcCreatePeerConnection(hostId) ==
    /\ ~mutex
    /\ IF hostId
       THEN /\ lastId < MaxId
            /\ LET id == NextId(lastId)
                   e == emplacePeerConnection(peerConnectionMap, userPointerMap, id) IN
               /\ lastId' = id
               /\ peerConnectionMap' = e.keys
               /\ userPointerMap' = e.up
               /\ obj' = [obj EXCEPT ![id] = NewObj("pc")]
            /\ UNCHANGED <<dataChannelMap, webSocketMap>>
       ELSE UNCHANGED <<lastId, stores, userPointerMap, obj>>
    /\ call' = None
    /\ UNCHANGED <<mutex, inCb, selfDeleted>>
    /\ UNCHANGED <<copy, held, host, thr>>

\* PeerConnection::close() is empty
rtcClosePeerConnectionRet(pc) == InvalidUnless(getPeerConnection(pc))
rtcClosePeerConnection(pc) ==
    /\ ~mutex
    /\ call' = None
    /\ UNCHANGED <<lastId, stores, userPointerMap, mutex, obj, inCb, selfDeleted>>
    /\ UNCHANGED <<copy, held, host, thr>>

\* rtcDeletePeerConnection that deletes the registered DataChannels with it
rtcDeletePeerConnectionCascades(pc) ==
    /\ ~mutex
    /\ IF getPeerConnection(pc)
       THEN LET e == erasePeerConnection(peerConnectionMap, userPointerMap, pc) IN
            /\ peerConnectionMap' = e.keys
            /\ dataChannelMap' = {}
            /\ userPointerMap' = [i \in DOMAIN e.up \ dataChannelMap |-> e.up[i]]
            /\ obj' = [h \in Handles |->
                         IF h = pc \/ h \in dataChannelMap THEN Destroy(obj[h]) ELSE obj[h]]
            /\ selfDeleted' = IF e.ok THEN selfDeleted \cup SelfDelete(pc) ELSE selfDeleted
       ELSE UNCHANGED <<peerConnectionMap, dataChannelMap, userPointerMap, obj, selfDeleted>>
    /\ call' = None
    /\ UNCHANGED <<lastId, webSocketMap, mutex, inCb>>
    /\ UNCHANGED <<copy, held, host, thr>>

rtcDeletePeerConnectionRet(pc) ==
    InvalidUnless(getPeerConnection(pc)
                  /\ erasePeerConnection(peerConnectionMap, userPointerMap, pc).ok)
rtcDeletePeerConnection(pc) ==
    /\ ~mutex
    /\ IF getPeerConnection(pc)
       THEN LET e == erasePeerConnection(peerConnectionMap, userPointerMap, pc) IN
            /\ peerConnectionMap' = e.keys
            /\ userPointerMap' = e.up
            /\ obj' = [obj EXCEPT ![pc] = IF e.ok THEN Destroy(@) ELSE @]
            /\ selfDeleted' = IF e.ok THEN selfDeleted \cup SelfDelete(pc) ELSE selfDeleted
       ELSE UNCHANGED <<peerConnectionMap, userPointerMap, obj, selfDeleted>>
    /\ call' = None
    /\ UNCHANGED <<lastId, dataChannelMap, webSocketMap, mutex, inCb>>
    /\ UNCHANGED <<copy, held, host, thr>>

\* ---- ABI: DataChannel and WebSocket common API

rtcCloseRet(id) == InvalidUnless(getChannel(id))
\* rtcClose that goes on to call the stored Closed callback
rtcCloseTriggersClosed(id) ==
    /\ ~mutex
    /\ IF getChannel(id)
       THEN /\ obj' = [obj EXCEPT ![id] = ChannelClose(@)]
            /\ call' = IF obj[id].cbs["Closed"].cb # 0 /\ id \in DOMAIN userPointerMap
                       THEN [h |-> id, kind |-> "Closed", cb |-> obj[id].cbs["Closed"].cb,
                             ptr |-> userPointerMap[id], dc |-> 0, size |-> 0]
                       ELSE None
       ELSE UNCHANGED obj /\ call' = None
    /\ UNCHANGED <<lastId, stores, userPointerMap, mutex, inCb, selfDeleted>>
    /\ UNCHANGED <<copy, held, host, thr>>
\* rtcClose that also drops the closed channel from the registry
rtcCloseErases(id) ==
    /\ ~mutex
    /\ IF getChannel(id)
       THEN LET e == eraseChannel(dataChannelMap, webSocketMap, userPointerMap, id) IN
            /\ dataChannelMap' = e.dc
            /\ webSocketMap' = e.ws
            /\ userPointerMap' = e.up
            /\ obj' = [obj EXCEPT ![id] = Release(ChannelClose(@), id = held)]
       ELSE UNCHANGED <<dataChannelMap, webSocketMap, userPointerMap, obj>>
    /\ call' = None
    /\ UNCHANGED <<lastId, peerConnectionMap, mutex, inCb, selfDeleted>>
    /\ UNCHANGED <<copy, held, host, thr>>
rtcClose(id) ==
    /\ ~mutex
    /\ IF getChannel(id)
       THEN obj' = [obj EXCEPT ![id] = ChannelClose(@)]
       ELSE UNCHANGED obj
    /\ call' = None
    /\ UNCHANGED <<lastId, stores, userPointerMap, mutex, inCb, selfDeleted>>
    /\ UNCHANGED <<copy, held, host, thr>>

rtcDeleteRet(id) ==
    InvalidUnless(getChannel(id)
                  /\ eraseChannel(dataChannelMap, webSocketMap, userPointerMap, id).ok)
\* rtcDelete that erases the user pointer entry before it looks the channel up
rtcDeleteErasesPointerFirst(id) ==
    /\ ~mutex
    /\ IF getChannel(id)
       THEN LET e == eraseChannel(dataChannelMap, webSocketMap, userPointerMap, id) IN
            /\ dataChannelMap' = e.dc
            /\ webSocketMap' = e.ws
            /\ userPointerMap' = e.up
            /\ obj' = [obj EXCEPT ![id] = IF e.ok THEN Release(ChannelClose(@), id = held)
                                            ELSE ChannelClose(@)]
            /\ selfDeleted' = IF e.ok THEN selfDeleted \cup SelfDelete(id) ELSE selfDeleted
       ELSE /\ userPointerMap' = MapErase(userPointerMap, id)
            /\ UNCHANGED <<dataChannelMap, webSocketMap, obj, selfDeleted>>
    /\ call' = None
    /\ UNCHANGED <<lastId, peerConnectionMap, mutex, inCb>>
    /\ UNCHANGED <<copy, held, host, thr>>
rtcDelete(id) ==
    /\ ~mutex
    /\ IF getChannel(id)
       THEN LET e == eraseChannel(dataChannelMap, webSocketMap, userPointerMap, id) IN
            /\ dataChannelMap' = e.dc
            /\ webSocketMap' = e.ws
            /\ userPointerMap' = e.up
            /\ obj' = [obj EXCEPT ![id] = IF e.ok THEN Release(ChannelClose(@), id = held)
                                            ELSE ChannelClose(@)]
            /\ selfDeleted' = IF e.ok THEN selfDeleted \cup SelfDelete(id) ELSE selfDeleted
       ELSE UNCHANGED <<dataChannelMap, webSocketMap, userPointerMap, obj, selfDeleted>>
    /\ call' = None
    /\ UNCHANGED <<lastId, peerConnectionMap, mutex, inCb>>
    /\ UNCHANGED <<copy, held, host, thr>>

\* wrap([id] { return getChannel(id)->isOpen() ? 0 : 1; }) == 0
rtcIsOpenRet(id) ==
    wrap(IF getChannel(id) THEN Ok(IF isOpen(obj[id]) THEN 0 ELSE 1)
         ELSE Throw("invalid_argument")) = 0
rtcIsOpen(id) ==
    /\ ~mutex
    /\ call' = None
    /\ UNCHANGED <<lastId, stores, userPointerMap, mutex, obj, inCb, selfDeleted>>
    /\ UNCHANGED <<copy, held, host, thr>>

rtcIsClosedRet(id) ==
    wrap(IF getChannel(id) THEN Ok(IF isClosed(obj[id]) THEN 0 ELSE 1)
         ELSE Throw("invalid_argument")) = 0
rtcIsClosed(id) ==
    /\ ~mutex
    /\ call' = None
    /\ UNCHANGED <<lastId, stores, userPointerMap, mutex, obj, inCb, selfDeleted>>
    /\ UNCHANGED <<copy, held, host, thr>>

\* DataChannel::send / WebSocket::send: TRUE iff the payload is handed to the host
ChannelSend(o) == o.mId

\* data: the pointer is non-null.  The result of send() is dropped.
rtcSendMessageRet(id, data, size) ==
    wrap(IF ~getChannel(id) THEN Throw("invalid_argument")
         ELSE IF ~data /\ size # 0 THEN Throw("invalid_argument")
         ELSE Ok(RTC_ERR_SUCCESS))
\* the call reaches the host's send primitive
rtcSendMessageForwards(id, data, size) ==
    /\ getChannel(id)
    /\ ~(~data /\ size # 0)
    /\ ChannelSend(obj[id])
rtcSendMessage(id, data, size) ==
    /\ ~mutex
    /\ call' = None
    /\ UNCHANGED <<lastId, stores, userPointerMap, mutex, obj, inCb, selfDeleted>>
    /\ UNCHANGED <<copy, held, host, thr>>

\* ---- ABI: DataChannel

rtcDeleteDataChannelRet(dc) ==
    InvalidUnless(getDataChannel(dc) /\ eraseDataChannel(dataChannelMap, userPointerMap, dc).ok)
rtcDeleteDataChannel(dc) ==
    /\ ~mutex
    /\ IF getDataChannel(dc)
       THEN LET e == eraseDataChannel(dataChannelMap, userPointerMap, dc) IN
            /\ dataChannelMap' = e.keys
            /\ userPointerMap' = e.up
            /\ obj' = [obj EXCEPT ![dc] = IF e.ok THEN Release(ChannelClose(@), dc = held)
                                            ELSE ChannelClose(@)]
            /\ selfDeleted' = IF e.ok THEN selfDeleted \cup SelfDelete(dc) ELSE selfDeleted
       ELSE UNCHANGED <<dataChannelMap, userPointerMap, obj, selfDeleted>>
    /\ call' = None
    /\ UNCHANGED <<lastId, peerConnectionMap, webSocketMap, mutex, inCb>>
    /\ UNCHANGED <<copy, held, host, thr>>

\* ---- ABI: WebSocket

\* supported: emscripten_websocket_is_supported().  emscripten_websocket_new
\* returns a socket id > 0 or an error code < 0, so mId is non-zero after open()
rtcCreateWebSocketRet(supported) ==
    wrap(IF supported THEN Ok(NextId(lastId)) ELSE Throw("runtime_error"))
\* rtcCreateWebSocket that takes the next id before open() can throw
rtcCreateWebSocketBurnsId(supported) ==
    /\ ~mutex
    /\ lastId < MaxId
    /\ lastId' = NextId(lastId)
    /\ IF supported
       THEN LET e == emplaceWebSocket(webSocketMap, userPointerMap, lastId') IN
            /\ webSocketMap' = e.keys
            /\ userPointerMap' = e.up
            /\ obj' = [obj EXCEPT ![lastId'] = NewObj("ws")]
       ELSE UNCHANGED <<webSocketMap, userPointerMap, obj>>
    /\ call' = None
    /\ UNCHANGED <<peerConnectionMap, dataChannelMap, mutex, inCb, selfDeleted>>
    /\ UNCHANGED <<copy, held, host, thr>>
rtcCreateWebSocket(supported) ==
    /\ ~mutex
    /\ IF supported
       THEN /\ lastId < MaxId
            /\ LET id == NextId(lastId)
                   e == emplaceWebSocket(webSocketMap, userPointerMap, id) IN
               /\ lastId' = id
               /\ webSocketMap' = e.keys
               /\ userPointerMap' = e.up
               /\ obj' = [obj EXCEPT ![id] = NewObj("ws")]
            /\ UNCHANGED <<peerConnectionMap, dataChannelMap>>
       ELSE UNCHANGED <<lastId, stores, userPointerMap, obj>>
    /\ call' = None
    /\ UNCHANGED <<mutex, inCb, selfDeleted>>
    /\ UNCHANGED <<copy, held, host, thr>>

rtcDeleteWebSocketRet(ws) ==
    InvalidUnless(getWebSocket(ws) /\ eraseWebSocket(webSocketMap, userPointerMap, ws).ok)
rtcDeleteWebSocket(ws) ==
    /\ ~mutex
    /\ IF getWebSocket(ws)
       THEN LET e == eraseWebSocket(webSocketMap, userPointerMap, ws) IN
            /\ webSocketMap' = e.keys
            /\ userPointerMap' = e.up
            /\ obj' = [obj EXCEPT ![ws] = IF e.ok THEN Destroy(@) ELSE ChannelClose(@)]
            /\ selfDeleted' = IF e.ok THEN selfDeleted \cup SelfDelete(ws) ELSE selfDeleted
       ELSE UNCHANGED <<webSocketMap, userPointerMap, obj, selfDeleted>>
    /\ call' = None
    /\ UNCHANGED <<lastId, peerConnectionMap, dataChannelMap, mutex, inCb>>
    /\ UNCHANGED <<copy, held, host, thr>>

\* ---- ABI: global cleanup

\* size_t eraseAll(): the number of entries removed
eraseAll(pcm, dcm, wsm) == Cardinality(dcm) + Cardinality(pcm) + Cardinality(wsm)

\* rtcCleanup that also resets lastId
rtcCleanupResetsCounter ==
    /\ ~mutex
    /\ peerConnectionMap' = {}
    /\ dataChannelMap' = {}
    /\ webSocketMap' = {}
    /\ userPointerMap' = EmptyMap
    /\ obj' = [h \in Handles |-> IF h \in Live THEN Release(obj[h], h = held) ELSE obj[h]]
    /\ lastId' = 0
    /\ call' = None
    /\ UNCHANGED <<mutex, inCb, selfDeleted>>
    /\ UNCHANGED <<copy, held, host, thr>>
rtcCleanup ==
    /\ ~mutex
    /\ peerConnectionMap' = {}
    /\ dataChannelMap' = {}
    /\ webSocketMap' = {}
    /\ userPointerMap' = EmptyMap
    /\ obj' = [h \in Handles |-> IF h \in Live THEN Release(obj[h], h = held) ELSE obj[h]]
    /\ call' = None
    /\ UNCHANGED <<lastId, mutex, inCb, selfDeleted>>
    /\ UNCHANGED <<copy, held, host, thr>>

\* ---- callback setters

\* the lambda [id, cb] a setter installs; a null cb clears the slot
Lambda(id, cb) == IF cb # 0 THEN [id |-> id, cb |-> cb] ELSE NoClosure

\* Channel::onOpen, onClosed, onError, onMessage, onBufferedAmountLow
ChannelOn(o, k, c) == [o EXCEPT !.cbs[k] = c]
\* onX that keeps a callback already stored
PeerConnectionOnKeepsFirst(o, k, c) == IF o.cbs[k].cb # 0 THEN o ELSE [o EXCEPT !.cbs[k] = c]
\* PeerConnection::onDataChannel, onLocalDescription, ..., onSignalingStateChange
PeerConnectionOn(o, k, c) == [o EXCEPT !.cbs[k] = c]

\* the model holds at most MaxCallbacks installed lambdas at a time
Budget(id, k, cb) == cb # 0 /\ obj[id].cbs[k].cb = 0 => NumClosures < MaxCallbacks

SetChannelCallbackRet(id) == InvalidUnless(getChannel(id))
SetChannelCallback(k, id, cb) ==
    /\ ~mutex
    /\ IF getChannel(id)
       THEN /\ Budget(id, k, cb)
            /\ obj' = [obj EXCEPT ![id] = ChannelOn(@, k, Lambda(id, cb))]
       ELSE UNCHANGED obj
    /\ call' = None
    /\ UNCHANGED <<lastId, stores, userPointerMap, mutex, inCb, selfDeleted>>
    /\ UNCHANGED <<copy, held, host, thr>>

SetPeerConnectionCallbackRet(pc) == InvalidUnless(getPeerConnection(pc))
SetPeerConnectionCallback(k, pc, cb) ==
    /\ ~mutex
    /\ IF getPeerConnection(pc)
       THEN /\ Budget(pc, k, cb)
            /\ obj' = [obj EXCEPT ![pc] = PeerConnectionOn(@, k, Lambda(pc, cb))]
       ELSE UNCHANGED obj
    /\ call' = None
    /\ UNCHANGED <<lastId, stores, userPointerMap, mutex, inCb, selfDeleted>>
    /\ UNCHANGED <<copy, held, host, thr>>

rtcSetOpenCallback(id, cb) == SetChannelCallback("Open", id, cb)
rtcSetClosedCallback(id, cb) == SetChannelCallback("Closed", id, cb)
rtcSetErrorCallback(id, cb) == SetChannelCallback("Error", id, cb)
rtcSetMessageCallback(id, cb) == SetChannelCallback("Message", id, cb)
rtcSetBufferedAmountLowCallback(id, cb) == SetChannelCallback("BufferedAmountLow", id, cb)

rtcSetLocalDescriptionCallback(pc, cb) == SetPeerConnectionCallback("LocalDescription", pc, cb)
rtcSetLocalCandidateCallback(pc, cb) == SetPeerConnectionCallback("LocalCandidate", pc, cb)
rtcSetStateChangeCallback(pc, cb) == SetPeerConnectionCallback("StateChange", pc, cb)
rtcSetIceStateChangeCallback(pc, cb) == SetPeerConnectionCallback("IceStateChange", pc, cb)
rtcSetGatheringStateChangeCallback(pc, cb) ==
    SetPeerConnectionCallback("GatheringStateChange", pc, cb)
rtcSetSignalingStateChangeCallback(pc, cb) ==
    SetPeerConnectionCallback("SignalingStateChange", pc, cb)
rtcSetDataChannelCallback(pc, cb) == SetPeerConnectionCallback("DataChannel", pc, cb)

\* ---- host events

\* Channel::triggerOpen, triggerClosed, triggerError, triggerMessage,
\* triggerBufferedAmountLow: the stored function to call, if any
ChannelTrigger(o, k) == o.cbs[k]
\* PeerConnection::triggerDataChannel, ..., triggerSignalingStateChange
PeerConnectionTrigger(o, k) == o.cbs[k]

\* the payload variant a message callback builds from the host's arguments
HostDecode(m) ==
    IF m.size >= 0 THEN [tag |-> "binary", len |-> m.size]
    ELSE [tag |-> "text", len |-> m.slen]
\* a string lambda that passes -int(s.size()), without the + 1
MessageSizeNoTerminator(v) == IF v.tag = "binary" THEN v.len ELSE -v.len
\* the size argument the rtcSetMessageCallback lambdas pass to the client
MessageSize(v) == IF v.tag = "binary" THEN v.len ELSE -(v.len + 1)

\* a lambda that passes nullptr as the user pointer
InvokeNullPointer(c, kind, dc, size, upm) ==
    IF c.cb = 0 \/ c.id \notin DOMAIN upm THEN None
    ELSE [h |-> c.id, kind |-> kind, cb |-> c.cb, ptr |-> 0, dc |-> dc, size |-> size]
\* the body of a capi lambda: if (auto ptr = getUserPointer(id)) cb(id, ..., *ptr);
\* the client callback invocation it makes, or None
Invoke(c, kind, dc, size, upm) ==
    IF c.cb = 0 THEN None
    ELSE LET up == getUserPointer(upm, c.id) IN
         IF up.has
         THEN [h |-> c.id, kind |-> kind, cb |-> c.cb, ptr |-> up.val, dc |-> dc, size |-> size]
         ELSE None
\* the mutex after the lambda's lookup
InvokeLock(c, upm) == IF c.cb = 0 THEN FALSE ELSE getUserPointer(upm, c.id).locked

\* an event for a destroyed object reads freed memory: either the fields are
\* still as the destructor left them (stale), or nothing of the handler runs (fault)
Outcomes(o) == IF o.alive THEN {"run"} ELSE {"stale", "fault"}

\* a host event for channel object h: o1 is the object after the handler's own
\* writes, k the event kind it triggers
ChannelDeliver(h, outcome, o1, k, size) ==
    /\ inCb = 0
    /\ ~mutex
    /\ outcome \in Outcomes(obj[h])
    /\ IF outcome = "fault"
       THEN /\ call' = None
            /\ UNCHANGED <<obj, inCb, mutex>>
       ELSE LET o2 == IF outcome = "run" THEN o1 ELSE obj[h]
                c == ChannelTrigger(o2, k) IN
            /\ obj' = [obj EXCEPT ![h] = o2]
            /\ call' = Invoke(c, k, 0, size, userPointerMap)
            /\ inCb' = call'.h
            /\ mutex' = InvokeLock(c, userPointerMap)
    /\ UNCHANGED <<lastId, stores, userPointerMap, selfDeleted>>
    /\ UNCHANGED <<copy, held, thr>>
\* the event as the host raises it with its send queues out of view
ChannelEvent(h, outcome, o1, k, size) ==
    /\ ChannelDeliver(h, outcome, o1, k, size)
    /\ UNCHANGED host

\* DataChannel::triggerOpen / WebSocket::triggerOpen
TriggerOpen(o) == [o EXCEPT !.mConnected = TRUE]

\* a message handler that forgets close() on a null data pointer
MessageObjKeepsOpen(o, m) == o
\* the handler of a message callback: a null data pointer closes the channel
\* and triggers Closed, anything else triggers Message
MessageObj(o, m) == IF m.data THEN o ELSE ChannelClose(o)
MessageKind(m) == IF m.data THEN "Message" ELSE "Closed"
MessageArg(m) == IF m.data THEN MessageSize(HostDecode(m)) ELSE 0

DataChannel_OpenCallback(h, outcome) ==
    /\ obj[h].kind = "dc"
    /\ ChannelEvent(h, outcome, TriggerOpen(obj[h]), "Open", 0)
DataChannel_ErrorCallback(h, outcome) ==
    /\ obj[h].kind = "dc"
    /\ ChannelEvent(h, outcome, obj[h], "Error", 0)
DataChannel_MessageCallback(h, outcome, m) ==
    /\ obj[h].kind = "dc"
    /\ ChannelEvent(h, outcome, MessageObj(obj[h], m), MessageKind(m), MessageArg(m))
DataChannel_BufferedAmountLowCallback(h, outcome) ==
    /\ obj[h].kind = "dc"
    /\ ChannelEvent(h, outcome, obj[h], "BufferedAmountLow", 0)

WebSocket_OpenCallback(h, outcome) ==
    /\ obj[h].kind = "ws"
    /\ ChannelEvent(h, outcome, TriggerOpen(obj[h]), "Open", 0)
WebSocket_ErrorCallback(h, outcome) ==
    /\ obj[h].kind = "ws"
    /\ ChannelEvent(h, outcome, obj[h], "Error", 0)
WebSocket_MessageCallback(h, outcome, m) ==
    /\ obj[h].kind = "ws"
    /\ ChannelEvent(h, outcome, MessageObj(obj[h], m), MessageKind(m), MessageArg(m))

\* DescriptionCallback, CandidateCallback, StateChangeCallback, IceStateChangeCallback,
\* GatheringStateChangeCallback, SignalingStateChangeCallback of PeerConnection
PeerConnection_Callback(h, outcome, k) ==
    /\ obj[h].kind = "pc"
    /\ k \in PcKinds \ {"DataChannel"}
    /\ inCb = 0
    /\ ~mutex
    /\ outcome \in Outcomes(obj[h])
    /\ IF outcome = "fault"
       THEN /\ call' = None
            /\ UNCHANGED <<inCb, mutex>>
       ELSE LET c == PeerConnectionTrigger(obj[h], k) IN
            /\ call' = Invoke(c, k, 0, 0, userPointerMap)
            /\ inCb' = call'.h
            /\ mutex' = InvokeLock(c, userPointerMap)
    /\ UNCHANGED <<lastId, stores, userPointerMap, obj, selfDeleted>>
    /\ UNCHANGED <<copy, held, host, thr>>

\* the DataChannel event with a lambda that leaves out rtcSetUserPointer(dc, *ptr)
PeerConnection_DataChannelCallbackNoPointer(h, outcome) ==
    /\ obj[h].kind = "pc"
    /\ inCb = 0
    /\ ~mutex
    /\ outcome \in Outcomes(obj[h])
    /\ LET c == PeerConnectionTrigger(obj[h], "DataChannel") IN
       IF outcome = "fault" \/ c.cb = 0
       THEN /\ call' = None
            /\ UNCHANGED <<lastId, dataChannelMap, userPointerMap, obj, inCb, mutex, held>>
       ELSE /\ lastId < MaxId
            /\ LET dc == NextId(lastId)
                   e == emplaceDataChannel(dataChannelMap, userPointerMap, dc)
                   up == getUserPointer(e.up, c.id) IN
               /\ lastId' = dc
               /\ dataChannelMap' = e.keys
               /\ userPointerMap' = e.up
               /\ obj' = [obj EXCEPT ![dc] = NewObj("dc")]
               /\ call' = Invoke(c, "DataChannel", dc, 0, e.up)
               /\ inCb' = call'.h
               /\ held' = call'.dc
               /\ mutex' = up.locked
    /\ UNCHANGED <<peerConnectionMap, webSocketMap, selfDeleted>>
    /\ UNCHANGED <<copy, host, thr>>

\* PeerConnection::DataChannelCallback with the rtcSetDataChannelCallback lambda:
\* the DataChannel is built, and registered only if a callback is stored
PeerConnection_DataChannelCallback(h, outcome) ==
    /\ obj[h].kind = "pc"
    /\ inCb = 0
    /\ ~mutex
    /\ outcome \in Outcomes(obj[h])
    /\ LET c == PeerConnectionTrigger(obj[h], "DataChannel") IN
       IF outcome = "fault" \/ c.cb = 0
       THEN /\ call' = None
            /\ UNCHANGED <<lastId, dataChannelMap, userPointerMap, obj, inCb, mutex, held>>
       ELSE /\ lastId < MaxId
            /\ LET dc == NextId(lastId)
                   e == emplaceDataChannel(dataChannelMap, userPointerMap, dc)
                   up == getUserPointer(e.up, c.id) IN
               /\ lastId' = dc
               /\ dataChannelMap' = e.keys
               /\ userPointerMap' = IF up.has THEN setUserPointer(e.up, dc, up.val) ELSE e.up
               /\ obj' = [obj EXCEPT ![dc] = NewObj("dc")]
               /\ call' = Invoke(c, "DataChannel", dc, 0, e.up)
               /\ inCb' = call'.h
               /\ held' = call'.dc
               /\ mutex' = up.locked
    /\ UNCHANGED <<peerConnectionMap, webSocketMap, selfDeleted>>
    /\ UNCHANGED <<copy, host, thr>>

\* the client callback returns to the lambda, which returns to the handler and
\* to the host; the lambda's shared_ptr to an incoming DataChannel goes, and
\* with it the DataChannel if the registry holds it no more
CallbackReturn ==
    /\ inCb # 0
    /\ inCb' = 0
    /\ call' = None
    /\ held' = 0
    /\ obj' = IF held # 0
              THEN [obj EXCEPT ![held] = Release(@, getDataChannel(held))]
              ELSE obj
    /\ UNCHANGED <<lastId, stores, userPointerMap, mutex, selfDeleted>>
    /\ UNCHANGED <<copy, host, thr>>

\* ---- specification

Bools == {TRUE, FALSE}
CbArgs == {0} \cup CbFuncs
Results == {"run", "stale", "fault"}

Next ==
    \/ \E i \in Handles, p \in Ptrs : rtcSetUserPointer(i, p)
    \/ \E i \in Handles : rtcGetUserPointer(i)
    \/ \E b \in Bools : rtcCreatePeerConnection(b)
    \/ \E i \in Handles : rtcClosePeerConnection(i)
    \/ \E i \in Handles : rtcDeletePeerConnection(i)
    \/ \E i \in Handles : rtcClose(i)
    \/ \E i \in Handles : rtcDelete(i)
    \/ \E i \in Handles : rtcIsOpen(i)
    \/ \E i \in Handles : rtcIsClosed(i)
    \/ \E i \in Handles, d \in Bools, s \in {-1, 0, 1} : rtcSendMessage(i, d, s)
    \/ \E i \in Handles : rtcDeleteDataChannel(i)
    \/ \E s \in Bools : rtcCreateWebSocket(s)
    \/ \E i \in Handles : rtcDeleteWebSocket(i)
    \/ rtcCleanup
    \/ \E i \in Handles, cb \in CbArgs : rtcSetOpenCallback(i, cb)
    \/ \E i \in Handles, cb \in CbArgs : rtcSetClosedCallback(i, cb)
    \/ \E i \in Handles, cb \in CbArgs : rtcSetErrorCallback(i, cb)
    \/ \E i \in Handles, cb \in CbArgs : rtcSetMessageCallback(i, cb)
    \/ \E i \in Handles, cb \in CbArgs : rtcSetBufferedAmountLowCallback(i, cb)
    \/ \E i \in Handles, cb \in CbArgs : rtcSetLocalDescriptionCallback(i, cb)
    \/ \E i \in Handles, cb \in CbArgs : rtcSetLocalCandidateCallback(i, cb)
    \/ \E i \in Handles, cb \in CbArgs : rtcSetStateChangeCallback(i, cb)
    \/ \E i \in Handles, cb \in CbArgs : rtcSetIceStateChangeCallback(i, cb)
    \/ \E i \in Handles, cb \in CbArgs : rtcSetGatheringStateChangeCallback(i, cb)
    \/ \E i \in Handles, cb \in CbArgs : rtcSetSignalingStateChangeCallback(i, cb)
    \/ \E i \in Handles, cb \in CbArgs : rtcSetDataChannelCallback(i, cb)
    \/ \E h \in Handles, r \in Results : DataChannel_OpenCallback(h, r)
    \/ \E h \in Handles, r \in Results : DataChannel_ErrorCallback(h, r)
    \/ \E h \in Handles, r \in Results, m \in HostMsgs : DataChannel_MessageCallback(h, r, m)
    \/ \E h \in Handles, r \in Results : DataChannel_BufferedAmountLowCallback(h, r)
    \/ \E h \in Handles, r \in Results : WebSocket_OpenCallback(h, r)
    \/ \E h \in Handles, r \in Results : WebSocket_ErrorCallback(h, r)
    \/ \E h \in Handles, r \in Results, m \in HostMsgs : WebSocket_MessageCallback(h, r, m)
    \/ \E h \in Handles, r \in Results, k \in PcKinds : PeerConnection_Callback(h, r, k)
    \/ \E h \in Handles, r \in Results : PeerConnection_DataChannelCallback(h, r)
    \/ CallbackReturn

Spec == Init /\ [][Next]_vars

\* ---- copyAndReturn applied to every value, buffer and capacity

CopyString(s, present, size) ==
    LET b == IF present THEN ClientBuffer(size) ELSE NullBuffer
        r == copyAndReturnString(s, b, size) IN
    /\ copy' = [fn |-> "string", value |-> s, size |-> size, before |-> b,
                after |-> r.buffer, ret |-> r.ret]
    /\ UNCHANGED <<lastId, stores, userPointerMap, mutex, obj, inCb, call, selfDeleted, held, host, thr>>
CopyBinary(v, present, size) ==
    LET b == IF present THEN ClientBuffer(size) ELSE NullBuffer
        r == copyAndReturnBinary(v, b, size) IN
    /\ copy' = [fn |-> "binary", value |-> v, size |-> size, before |-> b,
                after |-> r.buffer, ret |-> r.ret]
    /\ UNCHANGED <<lastId, stores, userPointerMap, mutex, obj, inCb, call, selfDeleted, held, host, thr>>

NextCopy ==
    \/ \E s \in Texts, p \in Bools, n \in Capacities : CopyString(s, p, n)
    \/ \E v \in Texts, p \in Bools, n \in Capacities : CopyBinary(v, p, n)

SpecCopy == Init /\ [][NextCopy]_vars

\* ---- description queries of a PeerConnection

DescriptionCalls == {"rtcGetLocalDescription", "rtcGetRemoteDescription",
                     "rtcGetLocalDescriptionType", "rtcGetRemoteDescriptionType"}

\* the texts a description is rendered to, one of each length
Descriptions == {s \in Texts : \A i \in DOMAIN s : s[i] = 1}

\* PeerConnection::localDescription / remoteDescription: sdp and type tell
\* whether the host returned a string (not a null pointer) for each; the
\* result has a value iff it returned both
HasDescription(sdp, type) == sdp /\ type

\* a query that takes a missing description for the empty string
GetDescriptionEmpty(pc, sdp, type, s, buffer, size) ==
    IF ~getPeerConnection(pc)
    THEN [ret |-> wrap(Throw("invalid_argument")), buffer |-> buffer]
    ELSE LET r == copyAndReturnString(IF HasDescription(sdp, type) THEN s ELSE <<>>,
                                      buffer, size) IN
         [ret |-> wrap(Ok(r.ret)), buffer |-> r.buffer]
\* the body of rtcGetLocalDescription, rtcGetRemoteDescription and the two
\* Type variants: s is string(*desc), desc->typeString() for the Type variants
GetDescription(pc, sdp, type, s, buffer, size) ==
    IF ~getPeerConnection(pc)
    THEN [ret |-> wrap(Throw("invalid_argument")), buffer |-> buffer]
    ELSE IF HasDescription(sdp, type)
    THEN LET r == copyAndReturnString(s, buffer, size) IN
         [ret |-> wrap(Ok(r.ret)), buffer |-> r.buffer]
    ELSE [ret |-> wrap(Ok(RTC_ERR_NOT_AVAIL)), buffer |-> buffer]

\* a description query: the call, its arguments and what it left in the buffer
DescriptionQuery(fn, pc, sdp, type, s, present, size) ==
    LET b == IF present THEN ClientBuffer(size) ELSE NullBuffer
        r == GetDescription(pc, sdp, type, s, b, size) IN
    /\ ~mutex
    /\ copy' = [fn |-> fn, value |-> s, size |-> size, before |-> b,
                after |-> r.buffer, ret |-> r.ret,
                found |-> getPeerConnection(pc), avail |-> HasDescription(sdp, type)]
    /\ UNCHANGED <<lastId, stores, userPointerMap, mutex, obj, inCb, call, selfDeleted, held, host, thr>>

rtcGetLocalDescription(pc, sdp, type, s, present, size) ==
    DescriptionQuery("rtcGetLocalDescription", pc, sdp, type, s, present, size)
rtcGetRemoteDescription(pc, sdp, type, s, present, size) ==
    DescriptionQuery("rtcGetRemoteDescription", pc, sdp, type, s, present, size)
rtcGetLocalDescriptionType(pc, sdp, type, s, present, size) ==
    DescriptionQuery("rtcGetLocalDescriptionType", pc, sdp, type, s, present, size)
rtcGetRemoteDescriptionType(pc, sdp, type, s, present, size) ==
    DescriptionQuery("rtcGetRemoteDescriptionType", pc, sdp, type, s, present, size)

NextDescription ==
    \/ \E b \in Bools : rtcCreatePeerConnection(b)
    \/ \E i \in Handles : rtcDeletePeerConnection(i)
    \/ \E i \in Handles, sdp \in Bools, type \in Bools, s \in Descriptions, p \in Bools,
          n \in Capacities : rtcGetLocalDescription(i, sdp, type, s, p, n)
    \/ \E i \in Handles, sdp \in Bools, type \in Bools, s \in Descriptions, p \in Bools,
          n \in Capacities : rtcGetRemoteDescription(i, sdp, type, s, p, n)
    \/ \E i \in Handles, sdp \in Bools, type \in Bools, s \in Descriptions, p \in Bools,
          n \in Capacities : rtcGetLocalDescriptionType(i, sdp, type, s, p, n)
    \/ \E i \in Handles, sdp \in Bools, type \in Bools, s \in Descriptions, p \in Bools,
          n \in Capacities : rtcGetRemoteDescriptionType(i, sdp, type, s, p, n)

SpecDescription == Init /\ [][NextDescription]_vars

\* ---- the send queue of a transport and its low threshold

\* the model queues at most MaxBuffered bytes in a transport
MaxBuffered == 2
Amounts == 0..MaxBuffered

\* DataChannel::DataChannel registers BufferedAmountLowCallback with the host;
\* WebSocket::open registers the open, error and message handlers and no other
Subscribed(o) == o.kind = "dc"

\* DataChannel::setBufferedAmountLowThreshold forwards the amount to the host
\* while the transport is there; a WebSocket has no host primitive to forward to
setBufferedAmountLowThreshold(o, t, amount) ==
    IF o.kind = "dc" /\ o.mId THEN [t EXCEPT !.threshold = amount] ELSE t

rtcSetBufferedAmountLowThresholdRet(id) == InvalidUnless(getChannel(id))
rtcSetBufferedAmountLowThreshold(id, amount) ==
    /\ ~mutex
    /\ host' = IF getChannel(id)
               THEN [host EXCEPT ![id] =
                        [setBufferedAmountLowThreshold(obj[id], @, amount)
                            EXCEPT !.asked = amount]]
               ELSE host
    /\ call' = None
    /\ UNCHANGED <<lastId, stores, userPointerMap, mutex, obj, inCb, selfDeleted>>
    /\ UNCHANGED <<copy, held, thr>>

\* rtcSendMessage of size bytes, with the queue of the host's send primitive in view
rtcSendMessageQueued(id, size) ==
    /\ ~mutex
    /\ host[id].queued + size <= MaxBuffered
    /\ host' = IF rtcSendMessageForwards(id, TRUE, size)
               THEN [host EXCEPT ![id].queued = @ + size]
               ELSE host
    /\ call' = None
    /\ UNCHANGED <<lastId, stores, userPointerMap, mutex, obj, inCb, selfDeleted>>
    /\ UNCHANGED <<copy, held, thr>>

\* the queue falls from above the threshold to it or below
Crossing(t, n) == t.queued > t.threshold /\ t.queued - n <= t.threshold

\* the host has sent n queued bytes of transport h; on a crossing it raises the
\* buffered-amount-low event once, with the handler the transport registered
Host_Drain(h, n) ==
    /\ obj[h].kind \in {"dc", "ws"}
    /\ obj[h].alive /\ obj[h].mId
    /\ n \in 1..host[h].queued
    /\ inCb = 0
    /\ ~mutex
    /\ host' = [host EXCEPT ![h].queued = @ - n]
    /\ IF Subscribed(obj[h]) /\ Crossing(host[h], n)
       THEN ChannelDeliver(h, "run", obj[h], "BufferedAmountLow", 0)
       ELSE /\ call' = None
            /\ UNCHANGED <<lastId, stores, userPointerMap, mutex, obj, inCb, selfDeleted>>
            /\ UNCHANGED <<copy, held, thr>>

NextBuffered ==
    \/ rtcCreateWebSocket(TRUE)
    \/ rtcCreatePeerConnection(TRUE)
    \/ \E pc \in Handles, cb \in CbArgs : rtcSetDataChannelCallback(pc, cb)
    \/ \E h \in Handles : PeerConnection_DataChannelCallback(h, "run")
    \/ CallbackReturn
    \/ \E id \in Handles, cb \in CbArgs : rtcSetBufferedAmountLowCallback(id, cb)
    \/ \E id \in Handles, n \in Amounts : rtcSetBufferedAmountLowThreshold(id, n)
    \/ \E id \in Handles, n \in Amounts : rtcSendMessageQueued(id, n)
    \/ \E h \in Handles, n \in Amounts : Host_Drain(h, n)

SpecBuffered == Init /\ [][NextBuffered]_vars

\* ---- rtcDelete called by two threads

\* the threads other than t that hold a shared_ptr to the channel of handle id
OtherHolders(t, id) ==
    {u \in Threads \ {t} : thr[u].id = id /\ thr[u].found /\ thr[u].at # "done"}

\* rtcDelete, first statement: getChannel(id) under the mutex; the call
\* returns RTC_ERR_INVALID here when the lookup throws
Delete_Lookup(t, id) ==
    /\ thr[t].at = "idle"
    /\ ~mutex /\ inCb = 0
    /\ thr' = [thr EXCEPT ![t] =
                  IF getChannel(id)
                  THEN [NoThread EXCEPT !.at = "close", !.id = id, !.found = TRUE]
                  ELSE [NoThread EXCEPT !.at = "done", !.id = id,
                                        !.ret = wrap(Throw("invalid_argument"))]]
    /\ call' = None
    /\ UNCHANGED <<lastId, stores, userPointerMap, mutex, obj, inCb, selfDeleted>>
    /\ UNCHANGED <<copy, held, host>>

\* channel->close(), not under the mutex: mConnected = false; if (mId)
Delete_CloseTest(t) ==
    /\ thr[t].at = "close"
    /\ inCb = 0
    /\ obj' = [obj EXCEPT ![thr[t].id].mConnected = FALSE]
    /\ thr' = [thr EXCEPT ![t].saw = obj[thr[t].id].mId,
                          ![t].at = IF obj[thr[t].id].mId THEN "release" ELSE "erase"]
    /\ call' = None
    /\ UNCHANGED <<lastId, stores, userPointerMap, mutex, inCb, selfDeleted>>
    /\ UNCHANGED <<copy, held, host>>

\* channel->close(), the branch taken: the host's release primitive; mId = 0
Delete_CloseRelease(t) ==
    /\ thr[t].at = "release"
    /\ inCb = 0
    /\ obj' = [obj EXCEPT ![thr[t].id].releases = @ + 1, ![thr[t].id].mId = FALSE]
    /\ thr' = [thr EXCEPT ![t].at = "erase"]
    /\ call' = None
    /\ UNCHANGED <<lastId, stores, userPointerMap, mutex, inCb, selfDeleted>>
    /\ UNCHANGED <<copy, held, host>>

\* eraseChannel(id) under the mutex, and the return: the thread's shared_ptr
\* goes, and with it the channel if neither the registry nor another thread
\* holds it
Delete_Erase(t) ==
    /\ thr[t].at = "erase"
    /\ ~mutex /\ inCb = 0
    /\ LET id == thr[t].id
           e == eraseChannel(dataChannelMap, webSocketMap, userPointerMap, id) IN
       /\ dataChannelMap' = e.dc
       /\ webSocketMap' = e.ws
       /\ userPointerMap' = e.up
       /\ obj' = [obj EXCEPT ![id] = Release(@, OtherHolders(t, id) # {})]
       /\ thr' = [thr EXCEPT ![t].at = "done",
                             ![t].ret = wrap(IF e.ok THEN Ok(RTC_ERR_SUCCESS)
                                             ELSE Throw("invalid_argument"))]
    /\ call' = None
    /\ UNCHANGED <<lastId, peerConnectionMap, mutex, inCb, selfDeleted>>
    /\ UNCHANGED <<copy, held, host>>

NextThreads ==
    \/ rtcCreateWebSocket(TRUE)
    \/ rtcCreatePeerConnection(TRUE)
    \/ \E pc \in Handles, cb \in CbArgs : rtcSetDataChannelCallback(pc, cb)
    \/ \E h \in Handles : PeerConnection_DataChannelCallback(h, "run")
    \/ CallbackReturn
    \/ \E i \in Handles, p \in Ptrs : rtcSetUserPointer(i, p)
    \/ \E t \in Threads, id \in Handles : Delete_Lookup(t, id)
    \/ \E t \in Threads : Delete_CloseTest(t)
    \/ \E t \in Threads : Delete_CloseRelease(t)
    \/ \E t \in Threads : Delete_Erase(t)

SpecThreads == Init /\ [][NextThreads]_vars

\* ---- properties

NullMsg == [data |-> FALSE, size |-> 0, slen |-> 0]
Channels == {h \in Handles : obj[h].kind \in {"dc", "ws"}}
\* handles whose resource a successful delete or rtcCleanup took from the
\* registry: the object is destroyed, or is on its way out of a running
\* DataChannel callback
Deleted == {h \in Handles : obj[h].kind # "none" /\ (~obj[h].alive \/ h \notin Live)}
registry == <<stores, userPointerMap, lastId>>

\* C1: no client callback is ever invoked with a handle that is not registered
\* to a resource at that moment; an event for a deleted handle is dropped.
C1_DropIfUnregistered == call # None => call.h \in Live

\* every status-returning ABI operation reports RTC_ERR_INVALID for handle h,
\* and the two boolean queries report false
ReportsInvalid(h) ==
    /\ rtcClosePeerConnectionRet(h) = RTC_ERR_INVALID
    /\ rtcDeletePeerConnectionRet(h) = RTC_ERR_INVALID
    /\ SetPeerConnectionCallbackRet(h) = RTC_ERR_INVALID
    /\ rtcCloseRet(h) = RTC_ERR_INVALID
    /\ rtcDeleteRet(h) = RTC_ERR_INVALID
    /\ rtcDeleteDataChannelRet(h) = RTC_ERR_INVALID
    /\ rtcDeleteWebSocketRet(h) = RTC_ERR_INVALID
    /\ SetChannelCallbackRet(h) = RTC_ERR_INVALID
    /\ \A d \in Bools, n \in {-1, 0, 1} : rtcSendMessageRet(h, d, n) = RTC_ERR_INVALID
    /\ ~rtcIsOpenRet(h)
    /\ ~rtcIsClosedRet(h)

\* C2: once a delete of h has succeeded, every later lookup of h (close, send,
\* callback setters, queries) and every further delete of h reports
\* RTC_ERR_INVALID.
C2_NoLeakageOfFreedHandles == \A h \in Deleted : ReportsInvalid(h)
\* a deleted handle next to a live one
C2_Witness == \E h \in Deleted, g \in Live : h # g

\* C3: the key sets of the three stores are pairwise disjoint.
C3_StoresDisjoint ==
    /\ peerConnectionMap \cap dataChannelMap = {}
    /\ peerConnectionMap \cap webSocketMap = {}
    /\ dataChannelMap \cap webSocketMap = {}
\* a PeerConnection and its incoming DataChannel registered at once
C3_Witness == \E p \in peerConnectionMap, d \in dataChannelMap : p # d

\* C4: a handle a create registers is >= 1, greater than every handle handed
\* out before, and was never handed out before, also after deletes and
\* rtcCleanup; the counter never moves back.
C4_HandlesIncrease ==
    [][/\ lastId' >= lastId
       /\ \A h \in Live' \ Live :
            /\ h >= 1
            /\ h = lastId'
            /\ h > lastId
            /\ \A g \in Handles : obj[g].kind # "none" => g < h]_vars
\* a handle handed out after rtcCleanup or a delete emptied the registry
C4_Witness == Live = {MaxId} /\ Deleted # {}

\* C5: every registered handle has a user pointer entry; a step that registers
\* a handle adds its entry, a step that unregisters one removes its entry.
C5_LiveHaveUserPointer ==
    [][/\ Live' \subseteq DOMAIN userPointerMap'
       /\ (Live \ Live') \cap DOMAIN userPointerMap' = {}]_vars
\* one resource registered, another one erased together with its entry
C5_Witness ==
    /\ Live # {}
    /\ \E h \in Deleted : obj[h].kind = "pc" /\ h \notin DOMAIN userPointerMap

\* C6: the registry mutex is not held when a client callback is invoked nor
\* while it runs, so a callback that re-enters the registry acquires it.
C6_LockFreeCallbacks == (call # None \/ inCb # 0) => ~mutex
\* a running callback has re-entered the registry and deleted its own handle
C6_Witness == inCb # 0 /\ inCb \in selfDeleted /\ inCb \notin Live

\* C7: after a callback has deleted its own handle h during dispatch, no host
\* event results in a callback invocation for h.
C7_NoDeliveryAfterSelfDelete == call # None => call.h \notin selfDeleted

\* the ABI operations that take handle h, rtcSetUserPointer and
\* rtcGetUserPointer apart
C8_Ops(h) ==
    \/ rtcClosePeerConnection(h)
    \/ rtcDeletePeerConnection(h)
    \/ rtcClose(h)
    \/ rtcDelete(h)
    \/ rtcIsOpen(h)
    \/ rtcIsClosed(h)
    \/ \E d \in Bools, n \in {-1, 0, 1} : rtcSendMessage(h, d, n)
    \/ rtcDeleteDataChannel(h)
    \/ rtcDeleteWebSocket(h)
    \/ \E k \in ChannelKinds, cb \in CbArgs : SetChannelCallback(k, h, cb)
    \/ \E k \in PcKinds, cb \in CbArgs : SetPeerConnectionCallback(k, h, cb)

\* C8 as stated: every ABI operation on a handle that is not live, including
\* rtcSetUserPointer and rtcGetUserPointer, reports InvalidHandle and leaves
\* the stores, the user pointer table and the counter unchanged.
C8_AsStated ==
    [][\A h \in Handles \ Live :
         /\ ReportsInvalid(h)
         /\ (C8_Ops(h) \/ rtcGetUserPointer(h) \/ \E p \in Ptrs : rtcSetUserPointer(h, p))
              => UNCHANGED registry]_vars

\* C8 amended: on a handle that is not live every status-returning ABI
\* operation reports RTC_ERR_INVALID (rtcIsOpen and rtcIsClosed report false)
\* and changes nothing; rtcGetUserPointer returns the stored pointer or null
\* and changes nothing; rtcSetUserPointer records the pointer and leaves the
\* stores and the counter unchanged.
C8_InvalidHandle ==
    [][\A h \in Handles \ Live :
         /\ ReportsInvalid(h)
         /\ C8_Ops(h) => UNCHANGED <<registry, obj>>
         /\ rtcGetUserPointer(h) => UNCHANGED <<registry, obj>>
         /\ rtcGetUserPointerRet(h) = IF h \in DOMAIN userPointerMap THEN userPointerMap[h] ELSE 0
         /\ \A p \in Ptrs : rtcSetUserPointer(h, p) =>
              /\ UNCHANGED <<stores, lastId, obj>>
              /\ rtcGetUserPointerRet(h)' = p]_vars
\* a deleted handle carries a user pointer set after the delete, next to a
\* live handle
C8_Witness ==
    \E h \in Deleted, g \in Live : h \in DOMAIN userPointerMap /\ userPointerMap[h] = 1

\* C9: no channel is open and closed at once; a closed channel stays closed
\* and is not open again, whatever host events arrive.
C9_ClosedAbsorbing ==
    [][\A h \in Channels :
         /\ ~(isOpen(obj[h]) /\ isClosed(obj[h]))
         /\ isClosed(obj[h]) => isClosed(obj'[h]) /\ ~isOpen(obj'[h])]_vars

\* a host message callback for channel h with a null data pointer
NullMessage(h) ==
    \/ DataChannel_MessageCallback(h, "run", NullMsg)
    \/ WebSocket_MessageCallback(h, "run", NullMsg)

\* C10: a null-payload message closes the channel first and then delivers
\* Closed, once and to the stored Closed callback only; no Message callback
\* is invoked for it, and the channel is closed when the Closed callback runs.
C10_NullPayloadCloses ==
    [][\A h \in Handles : NullMessage(h) =>
         /\ isClosed(obj'[h]) /\ ~isOpen(obj'[h])
         /\ call'.kind # "Message"
         /\ call' # None => call'.kind = "Closed" /\ call'.h = h /\ inCb' = h
         /\ obj[h].cbs["Closed"].cb # 0 =>
              /\ call'.cb = obj[h].cbs["Closed"].cb
              /\ call'.ptr = userPointerMap[h]]_vars
\* the Closed callback of a registered channel is invoked, the channel is closed
C10_Witness ==
    /\ call.kind = "Closed"
    /\ call.h \in Live
    /\ isClosed(obj[call.h])
    /\ ~isOpen(obj[call.h])

LiveChannels == {h \in Live : obj[h].kind \in {"dc", "ws"}}
SendArgs == Bools \X {-1, 0, 1}

\* C11: on a live channel whose transport is released, rtcSendMessage returns
\* a status other than RTC_ERR_SUCCESS and forwards nothing to the host.
C11_SendOnClosedFails ==
    \A h \in LiveChannels : isClosed(obj[h]) =>
        \A a \in SendArgs :
            /\ rtcSendMessageRet(h, a[1], a[2]) # RTC_ERR_SUCCESS
            /\ ~rtcSendMessageForwards(h, a[1], a[2])

\* C12: a send reaches the host only when the channel is open; on a channel
\* still in Created it fails with a non-success status and makes no host call.
C12_SendOnlyWhenOpen ==
    \A h \in LiveChannels : \A a \in SendArgs :
        /\ rtcSendMessageForwards(h, a[1], a[2]) => isOpen(obj[h])
        /\ ~isOpen(obj[h]) /\ ~isClosed(obj[h]) =>
              rtcSendMessageRet(h, a[1], a[2]) # RTC_ERR_SUCCESS

\* the operations that close a channel on the client's request
ExplicitClose(h) ==
    rtcClose(h) \/ rtcDelete(h) \/ rtcDeleteDataChannel(h) \/ rtcDeleteWebSocket(h)
\* a host closure signal for h, delivered to a live or to a destroyed channel
ClosureSignal(h) ==
    \E r \in {"run", "stale"} :
        \/ DataChannel_MessageCallback(h, r, NullMsg)
        \/ WebSocket_MessageCallback(h, r, NullMsg)

\* C13: rtcClose, rtcDelete, rtcDeleteDataChannel, rtcDeleteWebSocket and
\* rtcCleanup invoke no callback, so not the Closed callback either; a Closed
\* callback is invoked only by a host closure signal.
C13_CloseFiresNoClosed ==
    [][/\ \A h \in Handles : ExplicitClose(h) => call' = None /\ inCb' = inCb
       /\ rtcCleanup => call' = None /\ inCb' = inCb
       /\ call'.kind = "Closed" => ClosureSignal(call'.h)]_vars
\* a channel with a Closed callback stored was destroyed, another one with a
\* released transport is registered, and no callback is running
C13_Witness ==
    /\ call = None /\ inCb = 0
    /\ \E h \in Deleted, g \in LiveChannels :
         obj[h].cbs["Closed"].cb # 0 /\ isClosed(obj[g])

\* C14: the host's release primitive is called once per channel in total
\* (never before the first close, never again after it, and by destruction
\* at the latest), and a second close() changes nothing.
C14_CloseIdempotent ==
    \A h \in Channels :
        /\ obj[h].releases = IF isClosed(obj[h]) THEN 1 ELSE 0
        /\ ~obj[h].alive => obj[h].releases = 1
        /\ ChannelClose(ChannelClose(obj[h])) = ChannelClose(obj[h])
\* a destroyed WebSocket next to a registered channel that was closed
C14_Witness ==
    \E h \in Deleted, g \in LiveChannels :
        /\ obj[h].kind = "ws" /\ obj[h].releases = 1
        /\ isClosed(obj[g]) /\ obj[g].releases = 1

\* C15: right after rtcCreatePeerConnection or rtcCreateWebSocket registered
\* handle h, rtcGetUserPointer(h) is null, whatever rtcSetUserPointer calls
\* came before.
C15_CreateInsertsNull ==
    [][\A h \in Live' \ Live :
         obj'[h].kind \in {"pc", "ws"} => rtcGetUserPointerRet(h)' = 0]_vars

\* a host message event with a payload for live channel h
MessageEvent(h, m) ==
    \/ DataChannel_MessageCallback(h, "run", m)
    \/ WebSocket_MessageCallback(h, "run", m)
\* the size argument that tells the payload: its length for binary data,
\* -(length + 1) for text
PayloadSize(m) == IF m.size >= 0 THEN m.size ELSE -(m.slen + 1)

\* C16: a host message event with a non-null payload for a live channel h
\* that has a Message callback makes one invocation of that callback, with
\* handle h, the payload's length and the user pointer stored for h at that
\* moment.
C16_MessageDelivered ==
    [][\A h \in LiveChannels, m \in HostMsgs :
         m.data /\ obj[h].cbs["Message"].cb # 0 /\ MessageEvent(h, m) =>
            /\ call' = [h |-> h, kind |-> "Message", cb |-> obj[h].cbs["Message"].cb,
                        ptr |-> userPointerMap[h], dc |-> 0, size |-> PayloadSize(m)]
            /\ inCb' = h]_vars
\* the Message callback runs with a user pointer set after the channel was
\* registered and with a text payload of the longest length
C16_Witness ==
    /\ call.kind = "Message"
    /\ call.h \in LiveChannels
    /\ call.ptr = 1
    /\ call.size = -(MaxLen + 1)

\* the slots of object o1 are those of o, but for slot k, which holds c
SlotReplaced(o, o1, k, c) ==
    /\ o1.cbs[k] = c
    /\ \A j \in Kinds \ {k} : o1.cbs[j] = o.cbs[j]

\* C17: a callback slot holds the callback of the latest registration only:
\* registering puts the lambda of the given callback in the slot in place of
\* what was there, or empties the slot for null, and touches no other slot;
\* an event invokes the callback that is in the slot.
C17_SingleSubscriber ==
    /\ \A h \in LiveChannels, k \in ChannelKinds, cb \in CbArgs :
         SlotReplaced(obj[h], ChannelOn(obj[h], k, Lambda(h, cb)), k, Lambda(h, cb))
    /\ \A h \in peerConnectionMap, k \in PcKinds, cb \in CbArgs :
         SlotReplaced(obj[h], PeerConnectionOn(obj[h], k, Lambda(h, cb)), k, Lambda(h, cb))
    /\ call # None => obj[call.h].cbs[call.kind] = Lambda(call.h, call.cb)
\* the second client function is invoked for an incoming DataChannel
C17_Witness == call.kind = "DataChannel" /\ call.cb = 2 /\ call.h \in Live

\* C18: when the DataChannel callback is invoked with (pc, dc, ptr), dc is
\* the handle the counter gave last and resolves to the new DataChannel, so
\* rtcSetMessageCallback(dc, .) and rtcDelete(dc) from inside it succeed.
C18_IncomingRegisteredFirst ==
    call.kind = "DataChannel" =>
        /\ call.dc = lastId /\ call.dc >= 1
        /\ getDataChannel(call.dc)
        /\ obj[call.dc].kind = "dc" /\ obj[call.dc].alive
        /\ call.dc \in DOMAIN userPointerMap /\ userPointerMap[call.dc] = call.ptr
        /\ SetChannelCallbackRet(call.dc) = RTC_ERR_SUCCESS
        /\ rtcDeleteRet(call.dc) = RTC_ERR_SUCCESS
        /\ inCb = call.h
\* the DataChannel callback of a registered PeerConnection runs
C18_Witness == call.kind = "DataChannel" /\ call.h \in peerConnectionMap /\ call.dc \in Live

\* C19: wrap returns the operation's own result when it completes,
\* RTC_ERR_INVALID for std::invalid_argument and RTC_ERR_FAILURE for any
\* other exception the code raises; every entry point reports its faults so.
C19_WrapFaultOpaque ==
    /\ \A v \in RTC_ERR_TOO_SMALL..MaxId : wrap(Ok(v)) = v
    /\ wrap(Throw("invalid_argument")) = RTC_ERR_INVALID
    /\ wrap(Throw("runtime_error")) = RTC_ERR_FAILURE
    /\ rtcCreatePeerConnectionRet(TRUE) = lastId + 1
    /\ rtcCreateWebSocketRet(TRUE) = lastId + 1
    /\ rtcCreatePeerConnectionRet(FALSE) = RTC_ERR_FAILURE
    /\ rtcCreateWebSocketRet(FALSE) = RTC_ERR_FAILURE
    /\ \A h \in Handles :
         /\ rtcCloseRet(h) = IF h \in LiveChannels THEN RTC_ERR_SUCCESS ELSE RTC_ERR_INVALID
         /\ rtcDeleteRet(h) = IF h \in LiveChannels THEN RTC_ERR_SUCCESS ELSE RTC_ERR_INVALID
         /\ rtcClosePeerConnectionRet(h) =
              IF h \in peerConnectionMap THEN RTC_ERR_SUCCESS ELSE RTC_ERR_INVALID
         /\ rtcSendMessageRet(h, FALSE, 1) = RTC_ERR_INVALID
         /\ rtcSendMessageRet(h, TRUE, 1) =
              IF h \in LiveChannels THEN RTC_ERR_SUCCESS ELSE RTC_ERR_INVALID
\* a registered channel and a handle that is not registered: the three
\* outcomes of wrap are all to be had
C19_Witness ==
    \E h \in LiveChannels, g \in Handles \ Live :
        /\ rtcCloseRet(h) = RTC_ERR_SUCCESS
        /\ rtcCloseRet(g) = RTC_ERR_INVALID
        /\ rtcCreateWebSocketRet(FALSE) = RTC_ERR_FAILURE

\* the cells of buffer b from position n on
CellsFrom(b, n) == [i \in {j \in DOMAIN b.cells : j >= n} |-> b.cells[i]]

\* C20: copyAndReturn with an absent buffer returns the size needed and
\* writes nothing; with a capacity below the size needed (negative ones
\* included) it returns RTC_ERR_TOO_SMALL and leaves the buffer as it was;
\* otherwise it writes the value, followed by a terminator for text, leaves
\* the rest of the buffer as it was and returns the size needed. The size
\* needed is the length + 1 for text and the length for binary values.
C20_CopyAndReturn ==
    copy.fn # "none" =>
        LET L == Len(copy.value)
            need == IF copy.fn = "string" THEN L + 1 ELSE L IN
        /\ ~copy.before.present => copy.ret = need /\ copy.after = copy.before
        /\ copy.before.present /\ copy.size < need =>
              copy.ret = RTC_ERR_TOO_SMALL /\ copy.after = copy.before
        /\ copy.before.present /\ copy.size >= need =>
              /\ copy.ret = need
              /\ copy.after.present
              /\ DOMAIN copy.after.cells = DOMAIN copy.before.cells
              /\ \A i \in 1..L : copy.after.cells[i] = copy.value[i]
              /\ copy.fn = "string" => copy.after.cells[need] = 0
              /\ CellsFrom(copy.after, need + 1) = CellsFrom(copy.before, need + 1)
\* a text of the greatest length copied into a buffer of exactly length + 1
C20_Witness ==
    /\ copy.fn = "string"
    /\ Len(copy.value) = MaxText
    /\ copy.before.present
    /\ copy.size = MaxText + 1
    /\ copy.ret = MaxText + 1
    /\ copy.after.cells[MaxText + 1] = 0

\* what a client reads from the size argument of a message callback
DecodeSize(n) ==
    IF n < 0 THEN [tag |-> "text", len |-> -n - 1] ELSE [tag |-> "binary", len |-> n]

\* C21: a message event with a text payload of length L invokes the Message
\* callback with size -(L + 1), one with a binary payload of length L with
\* size L; the size is negative for text only, and -size - 1 (text) or size
\* (binary) gives back the variant and the length of the payload.
C21_SizeRoundTrip ==
    [][\A h \in Handles, m \in HostMsgs :
         m.data /\ MessageEvent(h, m) /\ call' # None =>
            LET v == HostDecode(m) IN
            /\ call'.kind = "Message"
            /\ v.tag = "text" => call'.size = -(v.len + 1)
            /\ v.tag = "binary" => call'.size = v.len
            /\ call'.size < 0 <=> v.tag = "text"
            /\ DecodeSize(call'.size) = v]_vars
\* the Message callback runs with an empty text, next to size 0 of the empty
\* binary payload
C21_Witness ==
    /\ call.kind = "Message"
    /\ call.h \in LiveChannels
    /\ call.size = -1
    /\ DecodeSize(call.size) = [tag |-> "text", len |-> 0]

\* C22: rtcCleanup empties the three stores and the user pointer table,
\* eraseAll counts the resources that were registered, every handle that was
\* registered reports RTC_ERR_INVALID afterwards, and every channel that was
\* registered is closed when rtcCleanup has returned.
C22_CleanupClosesAll ==
    [][rtcCleanup =>
         /\ eraseAll(peerConnectionMap, dataChannelMap, webSocketMap) = Cardinality(Live)
         /\ Live' = {}
         /\ userPointerMap' = EmptyMap
         /\ \A h \in Live : ReportsInvalid(h)'
         /\ \A h \in LiveChannels : isClosed(obj'[h])]_vars

\* a create call the host rejects: js_rtcCreatePeerConnection returns 0, or
\* WebSockets are not supported
FailedCreate == rtcCreatePeerConnection(FALSE) \/ rtcCreateWebSocket(FALSE)

FailingCall(h) ==
    \/ rtcClosePeerConnectionRet(h) < 0 /\ rtcClosePeerConnection(h)
    \/ rtcDeletePeerConnectionRet(h) < 0 /\ rtcDeletePeerConnection(h)
    \/ rtcCloseRet(h) < 0 /\ rtcClose(h)
    \/ rtcDeleteRet(h) < 0 /\ rtcDelete(h)
    \/ rtcDeleteDataChannelRet(h) < 0 /\ rtcDeleteDataChannel(h)
    \/ rtcDeleteWebSocketRet(h) < 0 /\ rtcDeleteWebSocket(h)
    \/ \E a \in SendArgs :
          rtcSendMessageRet(h, a[1], a[2]) < 0 /\ rtcSendMessage(h, a[1], a[2])
    \/ SetChannelCallbackRet(h) < 0
          /\ \E k \in ChannelKinds, cb \in CbArgs : SetChannelCallback(k, h, cb)
    \/ SetPeerConnectionCallbackRet(h) < 0
          /\ \E k \in PcKinds, cb \in CbArgs : SetPeerConnectionCallback(k, h, cb)

\* C24: an ABI call that returns a negative status leaves the stores, the
\* user pointer table, the counter and every object (open / closed state,
\* transport, callbacks) as they were; so a delete of an absent handle
\* touches no entry.
C24_FailureChangesNothing ==
    [][/\ \A h \in Handles : FailingCall(h) => UNCHANGED <<registry, obj>>
       /\ \A b \in Bools :
            /\ rtcCreatePeerConnectionRet(b) < 0 /\ rtcCreatePeerConnection(b)
                  => UNCHANGED <<registry, obj>>
            /\ rtcCreateWebSocketRet(b) < 0 /\ rtcCreateWebSocket(b)
                  => UNCHANGED <<registry, obj>>]_vars
\* the callback of an open channel has just been invoked; the other handle
\* is not registered but has a user pointer, and a delete of it, like a send
\* of a null pointer with a size on the open channel, reports RTC_ERR_INVALID
C24_Witness ==
    \E g \in LiveChannels, h \in Handles \ Live :
        /\ call # None /\ inCb = g
        /\ isOpen(obj[g])
        /\ h \in DOMAIN userPointerMap
        /\ rtcDeleteRet(h) = RTC_ERR_INVALID
        /\ rtcSendMessageRet(g, FALSE, 1) = RTC_ERR_INVALID

\* the calls that delete handle h
ExplicitDelete(h) ==
    \/ rtcDelete(h)
    \/ rtcDeleteDataChannel(h)
    \/ rtcDeleteWebSocket(h)
    \/ rtcDeletePeerConnection(h)

\* C25: a handle leaves the registry only by a delete of that handle or by
\* rtcCleanup, and the user pointer of a handle that stays changes only by
\* rtcSetUserPointer for it; rtcClose and rtcClosePeerConnection leave the
\* stores and the user pointer table alone, and a registered channel that is
\* closed, by rtcClose or by the host, still resolves.
C25_NoImplicitCollection ==
    [][/\ \A h \in Live \ Live' : rtcCleanup \/ ExplicitDelete(h)
       /\ \A h \in Live \cap Live' :
            userPointerMap'[h] # userPointerMap[h] => \E p \in Ptrs : rtcSetUserPointer(h, p)
       /\ \A h \in Handles :
            rtcClose(h) \/ rtcClosePeerConnection(h) => UNCHANGED <<stores, userPointerMap>>
       /\ \A h \in LiveChannels :
            isClosed(obj[h]) =>
               /\ rtcCloseRet(h) = RTC_ERR_SUCCESS
               /\ rtcIsClosedRet(h)
               /\ h \in DOMAIN userPointerMap]_vars
\* the host closed a registered DataChannel and its Closed callback was
\* invoked with the user pointer; the channel and its PeerConnection are
\* registered and rtcClose of the channel succeeds
C25_Witness ==
    /\ call.kind = "Closed"
    /\ call.ptr = 1
    /\ call.h \in dataChannelMap
    /\ isClosed(obj[call.h])
    /\ peerConnectionMap # {}
    /\ rtcCloseRet(call.h) = RTC_ERR_SUCCESS

\* C26: rtcSetUserPointer(i, p) makes rtcGetUserPointer(i) return p, for a
\* handle value that is registered or not, and changes the entry of no other
\* handle value, nor the stores; what rtcGetUserPointer(i) returns changes
\* only by a set for i (the client's, or the one the DataChannel lambda makes
\* when it registers i), a delete of i or rtcCleanup; without an entry it
\* returns null.
C26_UserPointerIndependent ==
    [][/\ \A i \in Handles, p \in Ptrs :
            rtcSetUserPointer(i, p) =>
               /\ rtcGetUserPointerRet(i)' = p
               /\ \A j \in Handles \ {i} :
                    getUserPointer(userPointerMap', j) = getUserPointer(userPointerMap, j)
               /\ UNCHANGED <<stores, lastId, obj>>
       /\ \A i \in Handles :
            rtcGetUserPointerRet(i)' # rtcGetUserPointerRet(i) =>
               \/ \E p \in Ptrs : rtcSetUserPointer(i, p)
               \/ i \in dataChannelMap' \ dataChannelMap
               \/ ExplicitDelete(i)
               \/ rtcCleanup
       /\ \A i \in Handles :
            /\ i \notin DOMAIN userPointerMap => rtcGetUserPointerRet(i) = 0
            /\ rtcGetUserPointer(i) => UNCHANGED <<registry, obj>>]_vars
\* a handle value never given out carries a pointer, the registered handle
\* has none
C26_Witness ==
    \E i \in Handles \ Live, g \in Live :
        /\ obj[i].kind = "none"
        /\ rtcGetUserPointerRet(i) = 1
        /\ g \in DOMAIN userPointerMap /\ rtcGetUserPointerRet(g) = 0

\* C27: rtcCreatePeerConnection returns a handle >= 1 that is registered,
\* whatever the number of ICE servers; a description query on a registered
\* PeerConnection for which the host has no sdp or no type returns
\* RTC_ERR_NOT_AVAIL and leaves the buffer as it was.
C27_NoDescriptionNotAvail ==
    [][/\ rtcCreatePeerConnection(TRUE) =>
            /\ rtcCreatePeerConnectionRet(TRUE) = lastId'
            /\ lastId' >= 1
            /\ lastId' \in peerConnectionMap'
       /\ copy'.fn \in DescriptionCalls /\ copy'.found /\ ~copy'.avail =>
            /\ copy'.ret = RTC_ERR_NOT_AVAIL
            /\ copy'.after = copy'.before]_vars
\* the local description of a registered PeerConnection was asked for with a
\* buffer large enough for any text, and the host had none
C27_Witness ==
    /\ copy.fn = "rtcGetLocalDescription"
    /\ peerConnectionMap # {}
    /\ copy.found /\ ~copy.avail
    /\ copy.before.present /\ copy.size = MaxText + 1
    /\ copy.ret = RTC_ERR_NOT_AVAIL

\* the queue of h falls in this step from above the threshold asked for to it
\* or below
FallsToThreshold(h) ==
    /\ host[h].asked >= 0
    /\ host'[h].asked = host[h].asked
    /\ host[h].queued > host[h].asked
    /\ host'[h].queued <= host[h].asked

\* C28: after rtcSetBufferedAmountLowThreshold(h, n) on a live channel h with
\* more than n bytes queued, the step in which the queue falls to n or below
\* invokes the BufferedAmountLow callback installed for h once, however many
\* bytes the step drains; and a rtcSetBufferedAmountLowThreshold call that
\* finds the queue at or below n invokes no callback.
C28_OneEventPerCrossing ==
    [][\A h \in LiveChannels :
         /\ obj[h].cbs["BufferedAmountLow"].cb # 0 /\ FallsToThreshold(h) =>
               /\ call' = [h |-> h, kind |-> "BufferedAmountLow",
                           cb |-> obj[h].cbs["BufferedAmountLow"].cb,
                           ptr |-> userPointerMap[h], dc |-> 0, size |-> 0]
               /\ inCb' = h
         /\ host'[h].asked # host[h].asked /\ host[h].queued <= host'[h].asked =>
               call' = None]_vars

\* C29: a rtcDeletePeerConnection(pc) that returns RTC_ERR_SUCCESS removes
\* pc from the PeerConnection store and pc's entry from the user pointer
\* table and nothing else: every DataChannel stays registered, with its user
\* pointer and its object (not closed, not destroyed) as they were.
C29_DeleteKeepsDataChannels ==
    [][\A pc \in Handles :
         rtcDeletePeerConnection(pc) /\ rtcDeletePeerConnectionRet(pc) = RTC_ERR_SUCCESS =>
            /\ peerConnectionMap' = peerConnectionMap \ {pc}
            /\ DOMAIN userPointerMap' = DOMAIN userPointerMap \ {pc}
            /\ \A i \in DOMAIN userPointerMap' : userPointerMap'[i] = userPointerMap[i]
            /\ UNCHANGED <<dataChannelMap, webSocketMap>>
            /\ \A dc \in dataChannelMap : obj'[dc] = obj[dc]]_vars
\* a PeerConnection was deleted and the DataChannel accepted from it is still
\* registered, with the user pointer the client set for it, and not closed
C29_Witness ==
    \E pc \in Deleted, dc \in dataChannelMap :
        /\ obj[pc].kind = "pc"
        /\ ~obj[pc].alive
        /\ pc < dc
        /\ userPointerMap[dc] = 1
        /\ obj[dc].alive
        /\ ~isClosed(obj[dc])
        /\ rtcGetUserPointerRet(dc) = 1
        /\ call = None

\* the resource registered under h is neither closed nor removed by the step
Untouched(h) ==
    /\ UNCHANGED <<stores, userPointerMap>>
    /\ obj'[h] = obj[h]

\* C30: for a registered handle h, a delete of another kind returns
\* RTC_ERR_INVALID and neither closes nor removes the resource:
\* rtcDeleteDataChannel for a WebSocket or PeerConnection, rtcDeleteWebSocket
\* for a DataChannel or PeerConnection, rtcDeletePeerConnection for a
\* channel, rtcDelete for a PeerConnection; rtcDelete of a DataChannel or a
\* WebSocket returns RTC_ERR_SUCCESS and removes it.
C30_DeletesKindChecked ==
    [][\A h \in Live :
         /\ h \in webSocketMap \cup peerConnectionMap =>
               /\ rtcDeleteDataChannelRet(h) = RTC_ERR_INVALID
               /\ rtcDeleteDataChannel(h) => Untouched(h)
         /\ h \in dataChannelMap \cup peerConnectionMap =>
               /\ rtcDeleteWebSocketRet(h) = RTC_ERR_INVALID
               /\ rtcDeleteWebSocket(h) => Untouched(h)
         /\ h \in dataChannelMap \cup webSocketMap =>
               /\ rtcDeletePeerConnectionRet(h) = RTC_ERR_INVALID
               /\ rtcDeletePeerConnection(h) => Untouched(h)
               /\ rtcDeleteRet(h) = RTC_ERR_SUCCESS
               /\ rtcDelete(h) => h \notin Live' /\ h \notin DOMAIN userPointerMap'
         /\ h \in peerConnectionMap =>
               /\ rtcDeleteRet(h) = RTC_ERR_INVALID
               /\ rtcDelete(h) => Untouched(h)]_vars
\* a PeerConnection and an open DataChannel are registered, each with a user
\* pointer the client set; every delete of another kind reports
\* RTC_ERR_INVALID for them and rtcDelete of the DataChannel would succeed
C30_Witness ==
    \E pc \in peerConnectionMap, dc \in dataChannelMap :
        /\ isOpen(obj[dc])
        /\ userPointerMap[pc] = 1
        /\ userPointerMap[dc] = 1
        /\ rtcDeleteRet(pc) = RTC_ERR_INVALID
        /\ rtcDeleteDataChannelRet(pc) = RTC_ERR_INVALID
        /\ rtcDeleteWebSocketRet(pc) = RTC_ERR_INVALID
        /\ rtcDeleteWebSocketRet(dc) = RTC_ERR_INVALID
        /\ rtcDeletePeerConnectionRet(dc) = RTC_ERR_INVALID
        /\ rtcDeleteRet(dc) = RTC_ERR_SUCCESS
        /\ call = None
        /\ inCb = 0

\* C32: when the DataChannel callback is invoked with (pc, dc, ptr), ptr is
\* the user pointer stored for pc at that moment, dc is registered as a
\* DataChannel, and rtcGetUserPointer(dc) already returns that same ptr.
C32_IncomingInheritsPointer ==
    call.kind = "DataChannel" =>
        /\ call.h \in DOMAIN userPointerMap
        /\ call.ptr = userPointerMap[call.h]
        /\ call.dc \in dataChannelMap
        /\ call.dc \in DOMAIN userPointerMap
        /\ rtcGetUserPointerRet(call.dc) = call.ptr
\* the DataChannel callback of a registered PeerConnection runs with the
\* non-null user pointer the client set for the PeerConnection, and the new
\* DataChannel has it too
C32_Witness ==
    /\ call.kind = "DataChannel"
    /\ call.h \in peerConnectionMap
    /\ call.ptr = 1
    /\ inCb = call.h
    /\ rtcGetUserPointerRet(call.h) = 1
    /\ rtcGetUserPointerRet(call.dc) = 1

\* C33: a step that registers a new DataChannel handle dc invokes the
\* client's DataChannel callback with dc; an incoming-channel event that
\* invokes no callback registers no handle and leaves the counter as it was.
C33_NoUnannouncedRegistration ==
    [][\A dc \in dataChannelMap' \ dataChannelMap :
         /\ call'.kind = "DataChannel"
         /\ call'.dc = dc]_vars

\* a host open event that the handler of live channel h takes
OpenEvent(h) ==
    \/ DataChannel_OpenCallback(h, "run")
    \/ WebSocket_OpenCallback(h, "run")

\* C34: rtcIsOpen(h) and rtcIsClosed(h) are both false for a handle value h
\* that resolves to no channel (never given out, deleted, or a
\* PeerConnection).  For a registered channel h, rtcIsClosed(h) is true
\* exactly when the transport was released; rtcIsOpen(h) is false at first,
\* becomes true only by a host open event for h, which makes it true, and
\* becomes false only by a close of h, which makes it false.
C34_OpenClosedQueries ==
    [][/\ \A h \in Handles :
            ~getChannel(h) => ~rtcIsOpenRet(h) /\ ~rtcIsClosedRet(h)
       /\ \A h \in LiveChannels :
            /\ rtcIsClosedRet(h) <=> obj[h].releases > 0
            /\ rtcIsOpenRet(h) <=> isOpen(obj[h])
       /\ \A h \in LiveChannels' \ LiveChannels : ~isOpen(obj'[h])
       /\ \A h \in LiveChannels \cap LiveChannels' :
            /\ ~isOpen(obj[h]) /\ isOpen(obj'[h]) => OpenEvent(h)
            /\ isOpen(obj[h]) /\ ~isOpen(obj'[h]) => obj'[h] = ChannelClose(obj[h])
            /\ OpenEvent(h) => isOpen(obj'[h])
            /\ obj'[h] = ChannelClose(obj[h]) /\ obj'[h] # obj[h] => ~isOpen(obj'[h])]_vars
\* a registered DataChannel the host has opened reports open and not closed,
\* and its registered PeerConnection reports neither
C34_Witness ==
    \E pc \in peerConnectionMap, dc \in dataChannelMap :
        /\ rtcIsOpenRet(dc)
        /\ ~rtcIsClosedRet(dc)
        /\ obj[dc].releases = 0
        /\ ~rtcIsOpenRet(pc)
        /\ ~rtcIsClosedRet(pc)

\* both threads have returned from rtcDelete(h), and h was a registered
\* channel when one of them looked it up
BothDeleted(h) ==
    /\ \A t \in Threads : thr[t].at = "done" /\ thr[t].id = h
    /\ \E t \in Threads : thr[t].found

\* C31: when two threads have called rtcDelete for the same registered
\* channel handle h, in every interleaving of their steps one call returned
\* RTC_ERR_SUCCESS and the other RTC_ERR_INVALID, h is registered no more,
\* the transport of h was released once, and no step of either call touched
\* another handle.
C31_ConcurrentDelete ==
    [][/\ \A h \in Handles :
            BothDeleted(h) =>
               /\ {thr[t].ret : t \in Threads} = {RTC_ERR_SUCCESS, RTC_ERR_INVALID}
               /\ h \notin Live
               /\ obj[h].releases = 1
       /\ \A t \in Threads :
            thr'[t] # thr[t] =>
               \A g \in Handles \ {thr'[t].id} :
                  /\ obj'[g] = obj[g]
                  /\ g \in Live' <=> g \in Live
                  /\ g \in DOMAIN userPointerMap' <=> g \in DOMAIN userPointerMap
                  /\ g \in DOMAIN userPointerMap => userPointerMap'[g] = userPointerMap[g]]_vars

====
